---- MODULE Spec2Model ----
(***************************************************************************)
(* Model of the HyperEVM demo market-data server.                          *)
(*                                                                         *)
(*   src/server.js         the full server: GET /api/tokens (optional      *)
(*                         web_scraper.py through execSync, static         *)
(*                         fallback), GET /api/orderbook/:symbol, and the  *)
(*                         socket.io feed (one setInterval per socket).    *)
(*   src/unnamed/part_000  the simpler server: the two HTTP handlers only. *)
(*                                                                         *)
(* Strings are sequences of one-character strings, so that the digits and  *)
(* the sign of a formatted number can be inspected.  JSON values carry a   *)
(* type tag.  Time is in milliseconds.  Numbers are IEEE-754 doubles, and  *)
(* the arithmetic and toFixed work on them bit for bit.  Every call of     *)
(* Math.random() returns a double of [0, 1) that nothing ties to any other *)
(* call: the draws of a handler are inputs of its action, one per call, in *)
(* the order of the calls; a draw r stands for the double r / RandDen.     *)
(*                                                                         *)
(* The page routes (GET /, GET /trading) and express.static answer with    *)
(* files of the server's directory; whether a file is there is an input of *)
(* the request, and a file's content is the file's name.                   *)
(***************************************************************************)
EXTENDS Integers, Sequences, FiniteSets, TLC

\* ----------------------------------------------------------------- bounds
MaxConn == 2
MaxTime == 5000
TimeStep == 1000
MaxBlock == 2
RandDen == 4096

\* ------------------------------------------------------ program constants
IntervalMs == 2000
BookLevels == 15
SimpleBookLevels == 10

Conns == 1..MaxConn
Handles == 1..MaxConn

\* --------------------------------------------------------------- strings
DigitChars == <<"0", "1", "2", "3", "4", "5", "6", "7", "8", "9">>

DigitSet == {DigitChars[i] : i \in 1..10}

JStr(chars) == [type |-> "string", chars |-> chars]

JNum(n) == [type |-> "number", num |-> n]

JArr(items) == [type |-> "array", items |-> items]

JObj(fields) == [type |-> "object", fields |-> fields]

Max(S) == CHOOSE x \in S : \A y \in S : y <= x

Min(S) == CHOOSE x \in S : \A y \in S : x <= y

Pow10(k) == 10 ^ k

Pow2(k) == 2 ^ k

\* The decimal digits of a natural number, most significant first.
IntDigits(n) ==
    LET len == 1 + Cardinality({d \in 1..9 : Pow10(d) <= n})
    IN  [i \in 1..len |-> DigitChars[((n \div Pow10(len - i)) % 10) + 1]]

\* The k low decimal digits of n, zero-padded on the left.
PadDigits(n, k) ==
    [i \in 1..k |-> DigitChars[((n \div Pow10(k - i)) % 10) + 1]]

\* ------------------------------------------------- IEEE-754 binary64
\* The numbers of the program are doubles.  A natural number of any size is
\* a sequence of limbs, least significant first, in base LimbBase, without
\* high zero limbs; a double is [neg, n, e], the value (-1)^neg * n * 2^e
\* with n below 2^53 (n = <<>> is zero).  Every operation rounds to nearest,
\* ties to even, as the hardware does.  Subnormals, infinities and NaN are
\* outside the program's range and are not modelled.
LimbBits == 13

LimbBase == 8192

MantissaBits == 53

\* The number of bits of a natural number below 2^31 (0 for 0).
IntBitLen(n) == Cardinality({b \in 0..30 : Pow2(b) <= n})

\* Limb i of a, zero past its end.
Limb(a, i) == IF i <= Len(a) THEN a[i] ELSE 0

\* Without its high zero limbs.
BNorm(a) == SubSeq(a, 1, Max({0} \cup {i \in 1..Len(a) : a[i] # 0}))

\* A natural number below 2^31 in limbs.
BFromInt(n) ==
    BNorm([i \in 1..3 |-> (n \div Pow2(LimbBits * (i - 1))) % LimbBase])

\* The value of a big number that fits an integer.
BToInt(a) ==
    LET v[i \in 1..(Len(a) + 1)] ==
            IF i > Len(a) THEN 0 ELSE a[i] + LimbBase * v[i + 1]
    IN  v[1]

\* a + b, limb by limb with the carry.
BAdd(a, b) ==
    LET n == Max({Len(a), Len(b)})
        st[i \in 0..n] ==
            IF i = 0 THEN << <<>>, 0 >>
            ELSE LET p == st[i - 1]
                     s == Limb(a, i) + Limb(b, i) + p[2]
                 IN  << Append(p[1], s % LimbBase), s \div LimbBase >>
        last == st[n]
    IN  BNorm(Append(last[1], last[2]))

\* a - b for a >= b.
BSub(a, b) ==
    LET st[i \in 0..Len(a)] ==
            IF i = 0 THEN << <<>>, 0 >>
            ELSE LET p == st[i - 1]
                     s == a[i] - Limb(b, i) - p[2]
                 IN  << Append(p[1], (s + LimbBase) % LimbBase),
                        IF s < 0 THEN 1 ELSE 0 >>
    IN  BNorm(st[Len(a)][1])

\* The sign of a - b: -1, 0 or 1.
BCmp(a, b) ==
    LET n == Max({Len(a), Len(b)})
        d == {i \in 1..n : Limb(a, i) # Limb(b, i)}
    IN  IF d = {} THEN 0
        ELSE IF Limb(a, Max(d)) < Limb(b, Max(d)) THEN -1 ELSE 1

\* a * k for a factor k of at most 17 bits.
BMulSmall(a, k) ==
    LET st[i \in 0..Len(a)] ==
            IF i = 0 THEN << <<>>, 0 >>
            ELSE LET p == st[i - 1]
                     s == a[i] * k + p[2]
                 IN  << Append(p[1], s % LimbBase), s \div LimbBase >>
        last == st[Len(a)]
    IN  BNorm(last[1] \o BFromInt(last[2]))

\* a * 2^s.
BShl(a, s) ==
    IF a = <<>> THEN <<>>
    ELSE [i \in 1..(s \div LimbBits) |-> 0]
         \o BMulSmall(a, Pow2(s % LimbBits))

BMul(a, b) ==
    LET acc[j \in 0..Len(b)] ==
            IF j = 0 THEN <<>>
            ELSE BAdd(acc[j - 1],
                      [i \in 1..(j - 1) |-> 0] \o BMulSmall(a, b[j]))
    IN  acc[Len(b)]

\* The number of bits of a.
BBitLen(a) ==
    IF a = <<>> THEN 0
    ELSE LimbBits * (Len(a) - 1) + IntBitLen(a[Len(a)])

\* <<a \div d, a % d>> for a divisor d of at most 17 bits.
BDivSmall(a, d) ==
    LET n == Len(a)
        st[i \in 1..(n + 1)] ==
            IF i = n + 1 THEN << <<>>, 0 >>
            ELSE LET p == st[i + 1]
                     s == p[2] * LimbBase + a[i]
                 IN  << <<s \div d>> \o p[1], s % d >>
        last == st[1]
    IN  << BNorm(last[1]), last[2] >>

\* <<a \div 2^s, a % 2^s>>, both big numbers.
BSplit(a, s) ==
    LET w    == s \div LimbBits
        low  == [i \in 1..w |-> Limb(a, i)]
        rest == IF w >= Len(a) THEN <<>> ELSE SubSeq(a, w + 1, Len(a))
        dv   == BDivSmall(rest, Pow2(s % LimbBits))
    IN  << dv[1], BNorm(low \o <<dv[2]>>) >>

FZero == [neg |-> FALSE, n |-> <<>>, e |-> 0]

\* The double nearest to (-1)^neg * n * 2^e, ties to even.
FRound(neg, n, e) ==
    LET len == BBitLen(n)
        s   == len - MantissaBits
        qr  == BSplit(n, s)
        c   == BCmp(qr[2], BShl(<<1>>, s - 1))
        up  == c > 0 \/ (c = 0 /\ qr[1][1] % 2 = 1)
    IN  IF len = 0 THEN FZero
        ELSE IF len <= MantissaBits THEN [neg |-> neg, n |-> n, e |-> e]
        ELSE [neg |-> neg,
              n   |-> IF up THEN BAdd(qr[1], <<1>>) ELSE qr[1],
              e   |-> e + s]

\* The double that the quotient num / den rounds to, which is the double a
\* decimal literal denotes (0.002 is 2 / 1000), for num >= 0 and 0 < den
\* below 2^17: the quotient to 56 bits or more, a sticky bit for the rest,
\* rounded.
FFromRatio(num, den) ==
    LET t  == MantissaBits + 3 + IntBitLen(den)
        dv == BDivSmall(BShl(BFromInt(num), t), den)
        n  == BAdd(BShl(dv[1], 1), IF dv[2] = 0 THEN <<>> ELSE <<1>>)
    IN  IF num = 0 THEN FZero ELSE FRound(FALSE, n, 0 - t - 1)

\* The double of a natural number below 2^31.
FFromInt(i) == [neg |-> FALSE, n |-> BFromInt(i), e |-> 0]

FNeg(x) == IF x.n = <<>> THEN x ELSE [x EXCEPT !.neg = ~x.neg]

\* x * y
FMul(x, y) ==
    IF x.n = <<>> \/ y.n = <<>> THEN FZero
    ELSE FRound(x.neg # y.neg, BMul(x.n, y.n), x.e + y.e)

\* x + y
FAdd(x, y) ==
    LET e == Min({x.e, y.e})
        a == BShl(x.n, x.e - e)
        b == BShl(y.n, y.e - e)
        c == BCmp(a, b)
    IN  IF x.n = <<>> THEN y
        ELSE IF y.n = <<>> THEN x
        ELSE IF x.neg = y.neg THEN FRound(x.neg, BAdd(a, b), e)
        ELSE IF c = 0 THEN FZero
        ELSE IF c > 0 THEN FRound(x.neg, BSub(a, b), e)
        ELSE FRound(y.neg, BSub(b, a), e)

\* x - y
FSub(x, y) == FAdd(x, FNeg(y))

\* Math.floor of a double x >= 0 whose floor fits an integer.
FFloor(x) ==
    IF x.n = <<>> THEN 0
    ELSE IF x.e >= 0 THEN BToInt(BShl(x.n, x.e))
    ELSE BToInt(BSplit(x.n, 0 - x.e)[1])

\* Number.prototype.toFixed(k) of the double x: "-" when x < 0 (also when it
\* then rounds to zero), the integer n nearest to |x| * 10^k, the larger one
\* when |x| * 10^k is exactly halfway, written with k fraction digits; no
\* "." when k = 0.
ToFixed(x, k) ==
    LET scaled == BMul(x.n, BFromInt(Pow10(k)))
        qr     == BSplit(scaled, 0 - x.e)
        n      == IF x.n = <<>> THEN 0
                  ELSE IF x.e >= 0 THEN BToInt(BShl(scaled, x.e))
                  ELSE BToInt(qr[1])
                       + (IF BCmp(qr[2], BShl(<<1>>, 0 - x.e - 1)) >= 0
                          THEN 1 ELSE 0)
    IN  (IF x.neg THEN <<"-">> ELSE <<>>)
        \o IntDigits(n \div Pow10(k))
        \o (IF k = 0 THEN <<>> ELSE <<".">> \o PadDigits(n % Pow10(k), k))

\* ------------------------------------------------------- the random source
\* The draws the handlers are run with: the ends of [0, 1), the two values
\* around 1/2 and a small one.
SampleSeq ==
    <<0, RandDen \div 64, RandDen \div 2 - 1, RandDen \div 2, RandDen - 1>>

Samples == {SampleSeq[i] : i \in 1..Len(SampleSeq)}

\* The double Math.random() returned, for the draw r.
Random(r) == FFromRatio(r, RandDen)

\* Sequences of n draws: every sample at every position, alone and next to
\* every other sample.
DrawSeqs(n) ==
    {[k \in 1..n |-> s] : s \in Samples}
    \cup {[k \in 1..n |-> SampleSeq[((k + d) % Len(SampleSeq)) + 1]] :
             d \in 1..Len(SampleSeq)}

\* The function f, each of its values computed once.
Tabulated(f) == f @@ f

VARIABLES
    now,            \* the event loop's clock, ms
    state,          \* per socket: "new", "connected", "disconnected"
    connectedAt,    \* per socket: the time of its connection event
    updateInterval, \* per socket: the handle its connection closure holds
    timers,         \* the runtime's timer table, by handle
    nextHandle,     \* the next handle setInterval returns
    received,       \* per socket: how many events of each name reached it
    firedAt,        \* per socket: the times its timer's callback ran
    lastEmit,       \* what the step just taken emitted, and to whom
    response,       \* the latest HTTP response
    uncaught,       \* whether an exception has escaped a handler
    lastOp          \* the handler that ran last, and its input

vars == <<now, state, connectedAt, updateInterval, timers, nextHandle,
          received, firedAt, lastEmit, response, uncaught, lastOp>>

feedVars == <<state, connectedAt, updateInterval, timers, nextHandle,
              received, firedAt>>

NoTimer == [owner |-> 0, due |-> 0, live |-> FALSE]

NoEmit == [to |-> {}, events |-> <<>>]

NoInput == <<>>

NoResponse == [status |-> 0, body |-> JObj(<<>>)]

Init ==
    /\ now = 0
    /\ state = [c \in Conns |-> "new"]
    /\ connectedAt = [c \in Conns |-> 0]
    /\ updateInterval = [c \in Conns |-> 0]
    /\ timers = [h \in Handles |-> NoTimer]
    /\ nextHandle = 1
    /\ received = [c \in Conns |-> [priceUpdate |-> 0, orderBookUpdate |-> 0]]
    /\ firedAt = [c \in Conns |-> <<>>]
    /\ lastEmit = NoEmit
    /\ response = NoResponse
    /\ uncaught = FALSE
    /\ lastOp = [op |-> "start", conn |-> 0, input |-> NoInput]

\* ------------------------------------------------------------ the timers
\* setInterval(cb, IntervalMs) called at time t by the closure of socket c:
\* the table with the new timer under handle h.
SetInterval(ts, h, c, t) ==
    [ts EXCEPT ![h] = [owner |-> c, due |-> t + IntervalMs, live |-> TRUE]]

ClearIntervalLeak(ts, h) == ts

\* clearInterval(h): the timer is cancelled; a handle already cancelled is
\* left as it is and nothing is thrown.
ClearInterval(ts, h) ==
    IF h \in DOMAIN ts /\ ts[h].live THEN [ts EXCEPT ![h].live = FALSE] ELSE ts

\* clearInterval throws for no argument, live, cancelled or unknown.
ClearIntervalThrows(ts, h) == FALSE

RunnableIgnoringCancel(h) == timers[h].owner # 0 /\ timers[h].due <= now

\* The runtime runs the callback of a timer that is live and due.
Runnable(h) == timers[h].live /\ timers[h].due <= now

HandleToClearShared(c) == nextHandle - 1

\* The handle the disconnect closure of socket c passes to clearInterval:
\* the const updateInterval of the same connection closure.
HandleToClear(c) == updateInterval[c]

EmitTargetsBroadcast(h) == {c \in Conns : state[c] = "connected"}

\* socket.emit sends to the socket of the closure that created the timer.
EmitTargets(h) == {timers[h].owner}

\* ------------------------------------------------------------- the ticks
\* priceUpdate payload, from one draw for the price and one for the change.
PriceTick(r1, r2) ==
    JObj([symbol |-> JStr(<<"B", "U", "D", "D", "Y">>),
          price  |-> JStr(ToFixed(FAdd(FMul(Random(r1), FFromRatio(2, 1000)),
                                       FFromRatio(1, 100)), 8)),
          change |-> JStr(ToFixed(FMul(FSub(Random(r2), FFromRatio(1, 2)),
                                       FFromInt(10)), 2))])

PercentageUpTo100(r) ==
    FFloor(FAdd(FMul(Random(r), FFromInt(70)), FFromInt(30)))

\* Math.floor(Math.random() * 40 + 30)
Percentage(r) == FFloor(FAdd(FMul(Random(r), FFromInt(40)), FFromInt(30)))

\* orderBookUpdate payload, from one draw for each percentage.
OrderBookTick(r3, r4) ==
    JObj([symbol         |-> JStr(<<"B", "U", "D", "D", "Y">>),
          buyPercentage  |-> JNum(Percentage(r3)),
          sellPercentage |-> JNum(Percentage(r4))])

\* The two payloads on the sampled draws.
PriceTicks ==
    Tabulated([r \in Samples \X Samples |-> PriceTick(r[1], r[2])])

OrderBookTicks ==
    Tabulated([r \in Samples \X Samples |-> OrderBookTick(r[1], r[2])])

\* What one run of the setInterval callback emits, in order, from its four
\* draws.
TickEvents(r) ==
    << [event |-> "priceUpdate", payload |-> PriceTicks[<<r[1], r[2]>>]],
       [event |-> "orderBookUpdate",
        payload |-> OrderBookTicks[<<r[3], r[4]>>]] >>

\* The draws of one run of the callback: any four samples.
TickDraws == [1..4 -> Samples]

\* The draws the feed's lifecycle is run with, where the payloads do not
\* matter: all four at the bottom, or all four at the top.
FeedDraws == {[k \in 1..4 |-> 0], [k \in 1..4 |-> RandDen - 1]}

\* ---------------------------------------------------- the socket handlers
\* io.on('connection'): a new socket; its closure starts one interval timer.
Connect(c) ==
    /\ state[c] = "new"
    /\ \A d \in Conns : d < c => state[d] # "new"
    /\ nextHandle \in Handles
    /\ state' = [state EXCEPT ![c] = "connected"]
    /\ connectedAt' = [connectedAt EXCEPT ![c] = now]
    /\ updateInterval' = [updateInterval EXCEPT ![c] = nextHandle]
    /\ timers' = SetInterval(timers, nextHandle, c, now)
    /\ nextHandle' = nextHandle + 1
    /\ lastOp' = [op |-> "connect", conn |-> c, input |-> NoInput]
    /\ lastEmit' = NoEmit
    /\ UNCHANGED <<now, received, firedAt, response, uncaught>>

\* socket.on('disconnect'): clearInterval(updateInterval).  The handler may
\* be signalled again for a socket that is already disconnected; lastOp
\* tells the two apart.
Disconnect(c) ==
    /\ state[c] \in {"connected", "disconnected"}
    /\ state' = [state EXCEPT ![c] = "disconnected"]
    /\ timers' = ClearInterval(timers, HandleToClear(c))
    /\ uncaught' = (uncaught \/ ClearIntervalThrows(timers, HandleToClear(c)))
    /\ lastOp' = [op |-> IF state[c] = "connected" THEN "disconnect"
                         ELSE "redisconnect",
                  conn |-> c, input |-> NoInput]
    /\ lastEmit' = NoEmit
    /\ UNCHANGED <<now, connectedAt, updateInterval, nextHandle,
                   received, firedAt, response>>

\* The setInterval callback of timer h runs: it emits priceUpdate and then
\* orderBookUpdate, with four calls of Math.random() that return the draws
\* r, and the runtime schedules the next run IntervalMs after the start of
\* this one.
Fire(h, r) ==
    /\ Runnable(h)
    /\ LET to == EmitTargets(h)
           ev == TickEvents(r)
       IN  /\ lastEmit' = [to |-> to, events |-> ev]
           /\ received' = [c \in Conns |->
                 IF c \in to
                 THEN [priceUpdate |-> received[c].priceUpdate + 1,
                       orderBookUpdate |-> received[c].orderBookUpdate + 1]
                 ELSE received[c]]
           /\ firedAt' = [c \in Conns |->
                 IF c = timers[h].owner THEN Append(firedAt[c], now)
                 ELSE firedAt[c]]
    /\ timers' = [timers EXCEPT ![h].due = now + IntervalMs]
    /\ lastOp' = [op |-> "fire", conn |-> timers[h].owner, input |-> NoInput]
    /\ UNCHANGED <<now, state, connectedAt, updateInterval, nextHandle,
                   response, uncaught>>

\* The event loop is idle: the clock moves on, to the next due time at most.
\* An idle loop runs a due callback before any more time passes.
Tick ==
    /\ \A h \in Handles : ~Runnable(h)
    /\ LET t == Min({now + TimeStep}
                    \cup {timers[h].due : h \in {k \in Handles : timers[k].live}})
       IN  /\ t <= MaxTime
           /\ now' = t
    /\ lastOp' = [op |-> "idle", conn |-> 0, input |-> NoInput]
    /\ lastEmit' = NoEmit
    /\ UNCHANGED <<feedVars, response, uncaught>>

\* ------------------------------------------------------ GET /api/tokens
Quote(symbol, price, change24h, volume) ==
    JObj([symbol |-> JStr(symbol), price |-> JStr(price),
          change24h |-> JStr(change24h), volume |-> JStr(volume)])

\* The static fallback list (the same literal in both servers).
mockTokens ==
    <<
        Quote(<<"B", "U", "D", "D", "Y">>,
              <<"0", ".", "0", "1", "2", "1", "4", "0", "0", "0">>,
              <<"+", "2", ".", "4", "5">>, <<"1", ".", "2", "M">>),
        Quote(<<"R", "U", "B">>,
              <<"0", ".", "0", "0", "8", "3", "4", "5", "2", "1">>,
              <<"+", "1", ".", "2", "3">>, <<"8", "5", "6", "K">>),
        Quote(<<"P", "U", "R", "R">>,
              <<"0", ".", "0", "0", "4", "5", "6", "7", "8", "9">>,
              <<"-", "0", ".", "8", "7">>, <<"2", ".", "1", "M">>),
        Quote(<<"L", "H", "Y", "P", "E">>,
              <<"0", ".", "0", "2", "3", "4", "5", "6", "7", "8">>,
              <<"+", "5", ".", "6", "7">>, <<"3", ".", "4", "M">>),
        Quote(<<"P", "i", "P">>,
              <<"0", ".", "0", "0", "1", "2", "3", "4", "5", "6">>,
              <<"+", "0", ".", "1", "2">>, <<"6", "7", "8", "K">>),
        Quote(<<"H", "S", "T", "R">>,
              <<"0", ".", "0", "1", "8", "7", "6", "5", "4", "3">>,
              <<"+", "3", ".", "2", "1">>, <<"1", ".", "8", "M">>),
        Quote(<<"K", "I", "T", "T", "E", "N">>,
              <<"0", ".", "0", "0", "9", "8", "7", "6", "5", "4">>,
              <<"-", "1", ".", "4", "5">>, <<"9", "9", "0", "K">>),
        Quote(<<"H", "L">>,
              <<"0", ".", "0", "0", "3", "4", "5", "6", "7", "8">>,
              <<"+", "2", ".", "7", "8">>, <<"1", ".", "5", "M">>)
    >>

\* What `python3 web_scraper.py` can do under execSync: exit with an error
\* (or not start at all), or exit normally with text on stdout that is JSON
\* or is not.  The script is outside the server; these are the outcomes the
\* handler is driven with.
ScriptFails == [exit |-> 1, parses |-> FALSE, value |-> JObj(<<>>)]

ScriptMissing == [exit |-> 127, parses |-> FALSE, value |-> JObj(<<>>)]

ScriptPrintsGarbage == [exit |-> 0, parses |-> FALSE, value |-> JObj(<<>>)]

ScriptPrints(v) == [exit |-> 0, parses |-> TRUE, value |-> v]

ScriptOutcomes ==
    { ScriptFails,
      ScriptMissing,
      ScriptPrintsGarbage,
      ScriptPrints(JArr(mockTokens)),
      ScriptPrints(JArr(mockTokens \o
          << Quote(<<"L", "I", "Q", "D">>, <<"0", ".", "0", "0", "5", "1", "2", "3", "4", "5">>, <<"+", "0", ".", "4", "5">>, <<"4", "2", "0", "K">>),
             Quote(<<"V", "E", "G", "A", "S">>, <<"0", ".", "0", "0", "0", "9", "8", "7", "6", "5">>, <<"-", "2", ".", "1", "0">>, <<"3", "1", "0", "K">>) >>)),
      ScriptPrints(JObj([error |-> JStr(<<"t", "i", "m", "e", "o", "u", "t">>)])) }

ErrorBody(msg) == JObj([error |-> JStr(msg)])

TokensHandlerEmptyFallback(out) ==
    IF out.exit # 0 \/ ~out.parses
    THEN [status |-> 200, body |-> JArr(<<>>)]
    ELSE [status |-> 200, body |-> out.value]

TokensHandlerNoFallback(out) ==
    IF out.exit # 0 \/ ~out.parses
    THEN [status |-> 500, body |-> ErrorBody(<<"F", "a", "i", "l", "e", "d">>)]
    ELSE [status |-> 200, body |-> out.value]

\* server.js app.get('/api/tokens'): execSync throws on a failing script and
\* JSON.parse throws on text that is not JSON; either lands in the inner
\* catch, which answers with mockTokens.  Parsed output is sent as it is.
\* res.json sets no status, so the status is 200.
TokensHandler(out) ==
    IF out.exit # 0 \/ ~out.parses
    THEN [status |-> 200, body |-> JArr(mockTokens)]
    ELSE [status |-> 200, body |-> out.value]

\* The handler runs to completion inside execSync: the event loop does
\* nothing else for the dur milliseconds the script takes.
TokensRequest(out, dur) ==
    /\ now + dur <= MaxTime
    /\ now' = now + dur
    /\ response' = TokensHandler(out)
    /\ lastOp' = [op |-> "tokens", conn |-> 0, input |-> out]
    /\ lastEmit' = NoEmit
    /\ UNCHANGED <<feedVars, uncaught>>

BlockTimes == {k * TimeStep : k \in 0..MaxBlock}

\* part_000 app.get('/api/tokens'): always the static list.
SimpleTokensHandler == [status |-> 200, body |-> JArr(mockTokens)]

SimpleTokensRequest ==
    /\ response' = SimpleTokensHandler
    /\ lastOp' = [op |-> "simpleTokens", conn |-> 0, input |-> NoInput]
    /\ lastEmit' = NoEmit
    /\ UNCHANGED <<now, feedVars, uncaught>>

\* --------------------------------------------- GET /api/orderbook/:symbol
Symbols == { <<"B", "U", "D", "D", "Y">>, <<"x">>, <<"N", "O", "P", "E", "!">> }

\* server.js: basePrice = Math.random() * 0.01 + 0.005, from the draw rb.
BasePrice(rb) ==
    FAdd(FMul(Random(rb), FFromRatio(1, 100)), FFromRatio(5, 1000))

\* server.js: the price of level i (from 0), basePrice - i * 0.0001 for a
\* bid (sign -1) and basePrice + i * 0.0001 for an ask (sign 1).
LevelPrice(rb, sign, i) ==
    IF sign < 0
    THEN FSub(BasePrice(rb), FMul(FFromInt(i), FFromRatio(1, 10000)))
    ELSE FAdd(BasePrice(rb), FMul(FFromInt(i), FFromRatio(1, 10000)))

LevelPriceSixDigits(rb, sign, i, ra) ==
    JObj([price  |-> JStr(ToFixed(LevelPrice(rb, sign, i), 6)),
          amount |-> JStr(ToFixed(FAdd(FMul(Random(ra), FFromInt(5000)),
                                       FFromInt(100)), 2))])

\* server.js: level i (from 0) of one side; rb is the draw of basePrice, ra
\* the draw of the level's amount = Math.random() * 5000 + 100.
Level(rb, sign, i, ra) ==
    JObj([price  |-> JStr(ToFixed(LevelPrice(rb, sign, i), 8)),
          amount |-> JStr(ToFixed(FAdd(FMul(Random(ra), FFromInt(5000)),
                                       FFromInt(100)), 2))])

\* server.js: the order book built from the draws r of its calls of
\* Math.random(), in order: one for the base price, then BookLevels for the
\* bids' amounts, then BookLevels for the asks'.
OrderBook(r) ==
    JObj([bids |-> JArr([i \in 1..BookLevels |->
                            Level(r[1], -1, i - 1, r[1 + i])]),
          asks |-> JArr([i \in 1..BookLevels |->
                            Level(r[1], 1, i - 1, r[1 + BookLevels + i])])])

\* server.js app.get('/api/orderbook/:symbol'): the symbol is only logged.
OrderBookHandler(symbol, r) == [status |-> 200, body |-> OrderBook(r)]

\* The draws of one request of server.js.
BookDraws == DrawSeqs(1 + 2 * BookLevels)

\* The handler on the symbols and draws it is run with.
OrderBookResponses ==
    Tabulated([in \in Symbols \X BookDraws |->
                  OrderBookHandler(in[1], in[2])])

OrderBookRequest(symbol, r) ==
    /\ response' = OrderBookResponses[<<symbol, r>>]
    /\ lastOp' = [op |-> "orderbook", conn |-> 0, input |-> symbol]
    /\ lastEmit' = NoEmit
    /\ UNCHANGED <<now, feedVars, uncaught>>

\* part_000: one level; base is 10 for bids (0.01) and 11 for asks (0.011):
\* price = Math.random() * 0.001 + base / 1000, amount = Math.random() * 1000
\* + 100.
SimpleLevel(base, rp, ra) ==
    JObj([price  |-> JStr(ToFixed(FAdd(FMul(Random(rp), FFromRatio(1, 1000)),
                                       FFromRatio(base, 1000)), 8)),
          amount |-> JStr(ToFixed(FAdd(FMul(Random(ra), FFromInt(1000)),
                                       FFromInt(100)), 2))])

\* part_000: the order book built from the draws r: every level draws its
\* price and then its amount, bids first.
SimpleOrderBook(r) ==
    JObj([bids |-> JArr([i \in 1..SimpleBookLevels |->
                            SimpleLevel(10, r[2 * i - 1], r[2 * i])]),
          asks |-> JArr([i \in 1..SimpleBookLevels |->
                            SimpleLevel(11, r[2 * (SimpleBookLevels + i) - 1],
                                        r[2 * (SimpleBookLevels + i)])])])

SimpleOrderBookHandler(symbol, r) ==
    [status |-> 200, body |-> SimpleOrderBook(r)]

\* The draws of one request of part_000.
SimpleBookDraws == DrawSeqs(4 * SimpleBookLevels)

SimpleOrderBookResponses ==
    Tabulated([in \in Symbols \X SimpleBookDraws |->
                  SimpleOrderBookHandler(in[1], in[2])])

SimpleOrderBookRequest(symbol, r) ==
    /\ response' = SimpleOrderBookResponses[<<symbol, r>>]
    /\ lastOp' = [op |-> "simpleOrderbook", conn |-> 0, input |-> symbol]
    /\ lastEmit' = NoEmit
    /\ UNCHANGED <<now, feedVars, uncaught>>

\* ------------------------------------------------ pages and static files
\* The body of a response that is the content of a file.
JFile(name) == [type |-> "file", name |-> name]

\* The body of the runtime's own error page.
JErrorPage == [type |-> "html"]

\* res.sendFile(name), and express.static for a path that names name: the
\* file with status 200 when it is there; when it is not, sendFile passes
\* the error on and express.static passes the request on, no handler is
\* left, and the runtime answers 404 with its error page.
SendFile(name, present) ==
    IF present THEN [status |-> 200, body |-> JFile(name)]
    ELSE [status |-> 404, body |-> JErrorPage]

\* A request that is answered with a file or with 404 and touches nothing
\* else.
FileRequest(op, name, present) ==
    /\ response' = SendFile(name, present)
    /\ lastOp' = [op |-> op, conn |-> 0, input |-> <<name, present>>]
    /\ lastEmit' = NoEmit
    /\ UNCHANGED <<now, feedVars, uncaught>>

\* server.js app.get('/'): index.html.
IndexRequest(present) == FileRequest("index", "index.html", present)

\* part_000 app.get('/'): index.html.
SimpleIndexRequest(present) ==
    FileRequest("simpleIndex", "index.html", present)

\* part_000 app.get('/trading'): trading.html.
SimpleTradingRequest(present) ==
    FileRequest("simpleTrading", "trading.html", present)

\* The paths requested that no route matches.
StaticFiles == {"server.js", "package.json", "style.css"}

\* express.static('.') of either server, for GET /name.
StaticRequest(name, present) == FileRequest("static", name, present)

\* ------------------------------------------------------- specifications
\* The feed of server.js with up to MaxConn sockets, and the token request
\* whose execSync holds the event loop for as long as the script runs.  Here
\* the script is one that fails and the draws are FeedDraws: neither the
\* response body nor the payload values bear on the lifecycle; SpecTicks
\* runs the callback on every combination of samples and SpecHttp the token
\* request with every outcome.
Next ==
    \/ \E c \in Conns : Connect(c)
    \/ \E c \in Conns : Disconnect(c)
    \/ \E h \in Handles, r \in FeedDraws : Fire(h, r)
    \/ Tick
    \/ \E dur \in BlockTimes : TokensRequest(ScriptFails, dur)

Spec == Init /\ [][Next]_vars

\* The feed of server.js with one socket, the four draws of each run of the
\* callback any samples, each chosen apart from the others: the payloads of
\* the ticks.
NextTicks ==
    \/ Connect(1)
    \/ Disconnect(1)
    \/ \E h \in Handles, r \in TickDraws : Fire(h, r)
    \/ Tick

SpecTicks == Init /\ [][NextTicks]_vars

\* The HTTP handlers of both servers, request after request, with every
\* outcome of the script, the draws of BookDraws and SimpleBookDraws, and
\* every file there or not.
NextHttp ==
    \/ \E out \in ScriptOutcomes, dur \in BlockTimes : TokensRequest(out, dur)
    \/ \E sym \in Symbols, r \in BookDraws : OrderBookRequest(sym, r)
    \/ SimpleTokensRequest
    \/ \E sym \in Symbols, r \in SimpleBookDraws :
          SimpleOrderBookRequest(sym, r)
    \/ \E present \in BOOLEAN : IndexRequest(present)
    \/ \E present \in BOOLEAN : SimpleIndexRequest(present)
    \/ \E present \in BOOLEAN : SimpleTradingRequest(present)
    \/ \E name \in StaticFiles, present \in BOOLEAN :
          StaticRequest(name, present)

SpecHttp == Init /\ [][NextHttp]_vars

\* ---------------------------------------------------------------- claims
\* What the model sees of socket c: its state, its closure's handle and that
\* handle's timer, and everything delivered to it.
ConnView(c) ==
    <<state[c], connectedAt[c], updateInterval[c],
      IF updateInterval[c] \in Handles THEN timers[updateInterval[c]]
      ELSE NoTimer,
      received[c], firedAt[c]>>

\* The live timers whose callback emits to socket c.
LiveTasks(c) == {h \in Handles : timers[h].live /\ timers[h].owner = c}

\* C1: once the disconnect of a socket has been handled, no step delivers a
\* priceUpdate or an orderBookUpdate to it: its counts stay as they are and
\* no firing names it as a target, whatever the other sockets, the clock and
\* the requests do (a firing due at the moment of the disconnect included).
C1_NoEventAfterDisconnect ==
    [][\A c \in Conns :
          state[c] = "disconnected" =>
              /\ received'[c] = received[c]
              /\ (lastOp'.op = "fire" => c \notin lastEmit'.to)]_vars

\* A socket that had received events has just been disconnected at a moment
\* when its timer was due.
C1_Witness ==
    \E c \in Conns :
        /\ lastOp.op = "disconnect" /\ lastOp.conn = c
        /\ state[c] = "disconnected"
        /\ received[c].priceUpdate >= 1
        /\ timers[updateInterval[c]].due <= now

\* C2: every connected socket has exactly one live timer and every other
\* socket has none.
C2_OneLiveTaskPerConnection ==
    \A c \in Conns :
        /\ state[c] = "connected" => Cardinality(LiveTasks(c)) = 1
        /\ state[c] # "connected" => LiveTasks(c) = {}

\* One socket is connected with its timer running while another has been
\* disconnected after its timer had fired.
C2_Witness ==
    \E c, d \in Conns :
        /\ state[c] = "connected" /\ state[d] = "disconnected"
        /\ received[d].priceUpdate >= 1
        /\ LiveTasks(c) = {updateInterval[c]}

\* C3: a disconnect signalled for a socket that is already disconnected (its
\* timer already cancelled) throws nothing and changes nothing of that
\* socket or of any other.
C3_DisconnectIdempotent ==
    [][lastOp'.op = "redisconnect" =>
          /\ UNCHANGED <<feedVars, now, response>>
          /\ uncaught' = FALSE]_vars

\* A second disconnect has been handled for a socket while another socket is
\* still connected with its timer live.
C3_Witness ==
    \E c, d \in Conns :
        /\ lastOp.op = "redisconnect" /\ lastOp.conn = c
        /\ state[d] = "connected" /\ timers[updateInterval[d]].live
        /\ ~uncaught

\* C4: a step that delivers events to a socket is a firing of that socket's
\* own timer and delivers to that socket alone; a connect or a disconnect of
\* one socket leaves the view of every other socket as it was.
C4_ConnectionsIsolated ==
    [][\A c \in Conns :
          /\ received'[c] # received[c] =>
                /\ lastOp'.op = "fire" /\ lastOp'.conn = c
                /\ lastEmit'.to = {c}
                /\ received'[c] = [priceUpdate |-> received[c].priceUpdate + 1,
                                   orderBookUpdate |->
                                       received[c].orderBookUpdate + 1]
          /\ (/\ lastOp'.op \in {"connect", "disconnect", "redisconnect"}
              /\ lastOp'.conn # c) => ConnView(c)' = ConnView(c)]_vars

\* Two sockets are connected and one of them has just received a tick the
\* other did not get.
C4_Witness ==
    \E c, d \in Conns :
        /\ c # d /\ state[c] = "connected" /\ state[d] = "connected"
        /\ lastOp.op = "fire" /\ lastOp.conn = c
        /\ received[c].priceUpdate = received[d].priceUpdate + 1

\* The script did not supply data: execSync threw or JSON.parse threw.
ScriptFailed(out) == out.exit # 0 \/ ~out.parses

\* C5: when the script throws, exits with an error, is unavailable or prints
\* text that is not JSON, GET /api/tokens answers 200 with the static list of
\* 8 quotes, never 500.
C5_FallbackOnScriptFailure ==
    (lastOp.op = "tokens" /\ ScriptFailed(lastOp.input)) =>
        /\ response.status = 200
        /\ response.body = JArr(mockTokens)
        /\ Len(response.body.items) = 8

\* The script printed text that does not parse and the request was answered.
C5_Witness ==
    /\ lastOp.op = "tokens"
    /\ lastOp.input = ScriptPrintsGarbage
    /\ response.status = 200

QuoteKeys == {"symbol", "price", "change24h", "volume"}

\* A JSON array of exactly 8 objects, each with the four quote fields, all
\* strings.
IsEightQuotes(body) ==
    /\ body.type = "array"
    /\ Len(body.items) = 8
    /\ \A i \in 1..Len(body.items) :
          /\ body.items[i].type = "object"
          /\ QuoteKeys \subseteq DOMAIN body.items[i].fields
          /\ \A k \in QuoteKeys : body.items[i].fields[k].type = "string"

\* C6 as stated: on every path of GET /api/tokens, the script succeeding or
\* failing, the response body is exactly 8 quotes with four string fields.
C6_AsClaimed ==
    lastOp.op \in {"tokens", "simpleTokens"} => IsEightQuotes(response.body)

\* C6 amended: the body is exactly 8 quotes with four string fields on every
\* request of the simpler server and, in server.js, whenever the script did
\* not supply data; when the script printed JSON, the body is that JSON as
\* parsed, whatever its shape, with status 200.
C6_EightQuotesUnlessScriptSupplies ==
    /\ lastOp.op = "simpleTokens" => IsEightQuotes(response.body)
    /\ (lastOp.op = "tokens" /\ ScriptFailed(lastOp.input)) =>
           IsEightQuotes(response.body)
    /\ (lastOp.op = "tokens" /\ ~ScriptFailed(lastOp.input)) =>
           /\ response.status = 200
           /\ response.body = lastOp.input.value

\* The script printed JSON that is not a list of 8 quotes, and that is what
\* the request returned.
C6_Witness ==
    /\ lastOp.op = "tokens"
    /\ ~ScriptFailed(lastOp.input)
    /\ response.body = lastOp.input.value
    /\ ~IsEightQuotes(response.body)

\* C7 as stated: a socket connected for at least 4200 ms has received at
\* least two priceUpdate and two orderBookUpdate events, one of each per
\* firing, the firings 2000 ms apart.
C7_AsClaimed ==
    \A c \in Conns :
        (state[c] = "connected" /\ now - connectedAt[c] >= 4200) =>
            /\ received[c].priceUpdate >= 2
            /\ received[c].orderBookUpdate >= 2
            /\ received[c].priceUpdate = Len(firedAt[c])
            /\ received[c].orderBookUpdate = Len(firedAt[c])
            /\ \A i \in 2..Len(firedAt[c]) :
                  firedAt[c][i] - firedAt[c][i - 1] = IntervalMs

\* A string of digits with exactly k of them after its one ".", and at least
\* one before it.
HasFractionDigits(str, k) ==
    /\ Len(str) >= k + 2
    /\ str[Len(str) - k] = "."
    /\ \A i \in 1..Len(str) : i # Len(str) - k => str[i] \in DigitSet

\* A percentage string as the claim has it: a sign, then digits with exactly
\* two after the point.
IsSignedPercent(str) ==
    /\ Len(str) >= 5
    /\ str[1] \in {"+", "-"}
    /\ HasFractionDigits(SubSeq(str, 2, Len(str)), 2)

\* C8 as stated: every change24h of the token list and every change of a
\* priceUpdate is a string with an explicit sign and exactly 2 fractional
\* digits.
C8_AsClaimed ==
    /\ \A i \in 1..Len(mockTokens) :
          IsSignedPercent(mockTokens[i].fields.change24h.chars)
    /\ lastEmit # NoEmit =>
          IsSignedPercent(lastEmit.events[1].payload.fields.change.chars)

\* One side of an order book: n levels, each a price with 8 fractional
\* digits and an amount with 2.
IsBookSide(side, n) ==
    /\ side.type = "array"
    /\ Len(side.items) = n
    /\ \A i \in 1..Len(side.items) :
          /\ DOMAIN side.items[i].fields = {"price", "amount"}
          /\ side.items[i].fields.price.type = "string"
          /\ HasFractionDigits(side.items[i].fields.price.chars, 8)
          /\ side.items[i].fields.amount.type = "string"
          /\ HasFractionDigits(side.items[i].fields.amount.chars, 2)

IsOrderBook(resp, n) ==
    /\ resp.status = 200
    /\ resp.body.type = "object"
    /\ DOMAIN resp.body.fields = {"bids", "asks"}
    /\ IsBookSide(resp.body.fields.bids, n)
    /\ IsBookSide(resp.body.fields.asks, n)

\* C9: GET /api/orderbook/:symbol answers 200 without an error key, for any
\* symbol, with bids and asks of 15 levels each (10 in the simpler server),
\* every price with exactly 8 fractional digits and every amount with 2.
C9_OrderBookShape ==
    /\ lastOp.op = "orderbook" => IsOrderBook(response, 15)
    /\ lastOp.op = "simpleOrderbook" => IsOrderBook(response, 10)

\* An order book has been returned for a symbol that is no token.
C9_Witness ==
    /\ lastOp.op = "orderbook"
    /\ lastOp.input = <<"N", "O", "P", "E", "!">>
    /\ response.status = 200
    /\ Len(response.body.fields.bids.items) = 15

\* C10: in every orderBookUpdate, buyPercentage and sellPercentage are each
\* an integer of 30..70; nothing ties one to the other.
C10_PercentagesInRange ==
    lastEmit # NoEmit =>
        LET f == lastEmit.events[2].payload.fields
        IN  /\ lastEmit.events[2].event = "orderBookUpdate"
            /\ f.buyPercentage.type = "number"
            /\ f.buyPercentage.num \in 30..70
            /\ f.sellPercentage.type = "number"
            /\ f.sellPercentage.num \in 30..70

\* After more than one firing, a tick at the top of the range whose two
\* percentages do not sum to 100.
C10_Witness ==
    /\ lastEmit # NoEmit
    /\ \E c \in Conns : received[c].orderBookUpdate >= 2
    /\ lastEmit.events[2].payload.fields.buyPercentage.num = 69
    /\ lastEmit.events[2].payload.fields.buyPercentage.num
         + lastEmit.events[2].payload.fields.sellPercentage.num # 100

====
